---- MODULE Spec2Model ----
(***************************************************************************)
(* Model of the SDL polyphonic synthesizer in src/source/main.cpp: the     *)
(* ADSR envelope, the instruments' finish rules, the note registry         *)
(* (vecNotes) swept by MakeNoise, and the keyboard handlers of main.       *)
(*                                                                         *)
(* Times are kept as sample indices (time = index / TicksPerSecond), and   *)
(* every FTYPE value is an exact fraction <<n, d>> extended with the IEEE  *)
(* special values the code can produce by dividing by a zero-length phase. *)
(***************************************************************************)
EXTENDS Integers, Sequences, FiniteSets, TLC

\* ------------------------------------------------------------------ bounds
\* Render ticks per second of the model (44100 in audioCallback).
TicksPerSecond == 3
\* Last sample index the render actor computes.
MaxTime == 4
\* Number of keyboard keys modelled (7 scancodes in main).
NumKeys == 2
\* Capacity of the registry: a key-down is taken while it holds fewer notes.
MaxNotes == 3
\* Longest attack, decay or release, in ticks, of the envelopes evaluated on
\* their own.
MaxPhase == 2
\* Longest elapsed time of one short sequencer Update, and the total elapsed
\* time fed to a sequencer, in sixteenths of a second (32 is the 2.0 s of
\* one cycle of the default sequencer).
MaxElapsed == 4
MaxSeqClock == 32
\* Latest on, in ticks, of the second note of the registries the mixer is
\* run on by itself; its off is at most one tick later.
MaxMixOn == 1

\* ------------------------------------------------------- FTYPE arithmetic
\* A double is <<n, d>>: d > 0 a finite fraction in lowest terms,
\* <<0,0>> NaN, <<1,0>> +infinity, <<-1,0>> -infinity.
Abs(x) == IF x < 0 THEN -x ELSE x
Sign(x) == IF x < 0 THEN -1 ELSE IF x > 0 THEN 1 ELSE 0

RECURSIVE GCD(_, _)
GCD(a, b) == IF b = 0 THEN a ELSE GCD(b, a % b)

Norm(n, d) ==
    IF d = 0 THEN <<Sign(n), 0>>
    ELSE LET g == GCD(Abs(n), Abs(d))
         IN  <<Sign(d) * Sign(n) * (Abs(n) \div g), Abs(d) \div g>>

NaN == <<0, 0>>
PInf == <<1, 0>>
NInf == <<-1, 0>>
Zero == <<0, 1>>
IsNaN(a) == a = NaN
IsInf(a) == a[2] = 0 /\ a[1] # 0
IsFinite(a) == a[2] > 0

FAdd(a, b) ==
    IF IsNaN(a) \/ IsNaN(b) THEN NaN
    ELSE IF IsInf(a) THEN (IF IsInf(b) /\ b # a THEN NaN ELSE a)
    ELSE IF IsInf(b) THEN b
    ELSE Norm(a[1] * b[2] + b[1] * a[2], a[2] * b[2])
FNeg(a) == <<-a[1], a[2]>>
FSub(a, b) == FAdd(a, FNeg(b))
FMul(a, b) == Norm(a[1] * b[1], a[2] * b[2])
FRecip(a) == Norm(a[2], a[1])
FDiv(a, b) == FMul(a, FRecip(b))
\* Comparisons: every comparison with NaN is false.
FLt(a, b) ==
    /\ ~IsNaN(a) /\ ~IsNaN(b) /\ a # b
    /\ \/ a = NInf
       \/ b = PInf
       \/ IsFinite(a) /\ IsFinite(b) /\ a[1] * b[2] < b[1] * a[2]
FLeq(a, b) == ~IsNaN(a) /\ ~IsNaN(b) /\ (a = b \/ FLt(a, b))
FGt(a, b) == FLt(b, a)
FGeq(a, b) == FLeq(b, a)

\* A sample index as seconds.
Sec(i) == Norm(i, TicksPerSecond)
\* Hundredths, the unit the source writes its parameters in.
Cs(n) == Norm(n, 100)

\* --------------------------------------------------------------- envelope
\* The silence floor of envelope_adsr::amplitude.
Floor == Cs(1)

\* The three sequential ifs of the held branch, starting from 0.0.
HeldAmplitude(e, life) ==
    LET a1 == IF FLeq(life, e.attack)
              THEN FMul(FDiv(life, e.attack), e.start)
              ELSE Zero
        a2 == IF FGt(life, e.attack) /\ FLeq(life, FAdd(e.attack, e.decay))
              THEN FAdd(FMul(FDiv(FSub(life, e.attack), e.decay),
                             FSub(e.sustain, e.start)), e.start)
              ELSE a1
    IN  IF FGt(life, FAdd(e.attack, e.decay)) THEN e.sustain ELSE a2

\* The same three ifs of the released branch, computing dReleaseAmplitude.
ReleaseAmplitude(e, life) ==
    LET a1 == IF FLeq(life, e.attack)
              THEN FMul(FDiv(life, e.attack), e.start)
              ELSE Zero
        a2 == IF FGt(life, e.attack) /\ FLeq(life, FAdd(e.attack, e.decay))
              THEN FAdd(FMul(FDiv(FSub(life, e.attack), e.decay),
                             FSub(e.sustain, e.start)), e.start)
              ELSE a1
    IN  IF FGt(life, FAdd(e.attack, e.decay)) THEN e.sustain ELSE a2

\* The regime test: the note is on.
NoteIsOn(tOn, tOff) == FGt(tOn, tOff)

\* Mutant of ClampFloor: the floor is left out.
NoFloor(a) == a

\* The floor at the end of amplitude.
ClampFloor(a) == IF FLeq(a, Floor) THEN Zero ELSE a

\* envelope_adsr::amplitude(dTime, dTimeOn, dTimeOff) for parameters e.
Amplitude(e, t, tOn, tOff) ==
    ClampFloor(
        IF NoteIsOn(tOn, tOff)
        THEN HeldAmplitude(e, FSub(t, tOn))
        ELSE LET r == ReleaseAmplitude(e, FSub(tOff, tOn))
             IN  FAdd(FMul(FDiv(FSub(t, tOff), e.release), FSub(Zero, r)), r))

\* ------------------------------------------------------------ instruments
EnvDefault == [attack |-> Cs(10), decay |-> Cs(10), sustain |-> Cs(100),
               release |-> Cs(20), start |-> Cs(100)]
InstBell == [name |-> "Bell", maxLife |-> Cs(300),
             env |-> [EnvDefault EXCEPT !.attack = Cs(1), !.decay = Cs(100),
                                        !.sustain = Cs(0), !.release = Cs(100)]]
InstBell8 == [name |-> "Bell8", maxLife |-> Cs(300),
              env |-> [EnvDefault EXCEPT !.attack = Cs(1), !.decay = Cs(50),
                                         !.sustain = Cs(80), !.release = Cs(100)]]
\* Mutant of InstHarm: a harmonica whose envelope decays to a sustain of 0.
InstHarmNoSustain ==
    [name |-> "Harm", maxLife |-> Cs(-100),
     env |-> [EnvDefault EXCEPT !.attack = Cs(0), !.decay = Cs(100),
                                !.sustain = Cs(0), !.release = Cs(50)]]

InstHarm == [name |-> "Harm", maxLife |-> Cs(-100),
             env |-> [EnvDefault EXCEPT !.attack = Cs(0), !.decay = Cs(100),
                                        !.sustain = Cs(95), !.release = Cs(50)]]
InstKick == [name |-> "Kick", maxLife |-> Cs(150),
             env |-> [EnvDefault EXCEPT !.attack = Cs(1), !.decay = Cs(15),
                                        !.sustain = Cs(0), !.release = Cs(0)]]
InstSnare == [name |-> "Snare", maxLife |-> Cs(100),
              env |-> [EnvDefault EXCEPT !.attack = Cs(0), !.decay = Cs(20),
                                         !.sustain = Cs(0), !.release = Cs(0)]]
InstHiHat == [name |-> "HiHat", maxLife |-> Cs(100),
              env |-> [EnvDefault EXCEPT !.attack = Cs(1), !.decay = Cs(5),
                                         !.sustain = Cs(0), !.release = Cs(0)]]

Instrument(ch) ==
    CASE ch = "Bell" -> InstBell
      [] ch = "Bell8" -> InstBell8
      [] ch = "Harm" -> InstHarm
      [] ch = "Kick" -> InstKick
      [] ch = "Snare" -> InstSnare
      [] ch = "HiHat" -> InstHiHat

\* The sample indices a note's on, off and a render time range over.
Times == 0 .. (MaxTime + 1)
InstrumentNames == {"Bell", "Bell8", "Harm", "Kick", "Snare", "HiHat"}

\* synth::env(dTime, env, n.on, n.off) of each instrument, tabulated over
\* the sample indices.
EnvAt ==
    [ch \in InstrumentNames |->
        [t \in Times, tOn \in Times, tOff \in Times |->
            Amplitude(Instrument(ch).env, Sec(t), Sec(tOn), Sec(tOff))]]

\* dAmplitude as sound(dTime, n, ...) of n's channel computes it.
NoteAmplitude(t, n) == EnvAt[n.channel][t, n.on, n.off]

\* Mutant of EnvelopeFinished: only a negative amplitude finishes the note.
EnvelopeFinishedBelowZero(inst, t, n) == FLt(NoteAmplitude(t, n), Zero)

\* bNoteFinished of the envelope-driven instruments (bell, 8-bit bell,
\* harmonica): the amplitude is <= 0.0.
EnvelopeFinished(inst, t, n) == FLeq(NoteAmplitude(t, n), Zero)

\* Mutant of LifetimeFinished: the percussion finishes on a silent envelope
\* too.
LifetimeOrSilenceFinished(inst, t, n) ==
    \/ FGt(inst.maxLife, Zero) /\ FGeq(FSub(Sec(t), Sec(n.on)), inst.maxLife)
    \/ FLeq(NoteAmplitude(t, n), Zero)

\* bNoteFinished of the percussion (kick, snare, hi-hat).
LifetimeFinished(inst, t, n) ==
    FGt(inst.maxLife, Zero) /\ FGeq(FSub(Sec(t), Sec(n.on)), inst.maxLife)

\* bNoteFinished as MakeNoise gets it for note n: false for a note with no
\* channel, else as sound(dTime, n, bNoteFinished) of n's channel sets it.
Finished(t, n) ==
    IF n.channel = "none" THEN FALSE
    ELSE IF n.channel \in {"Bell", "Bell8", "Harm"}
    THEN EnvelopeFinished(Instrument(n.channel), t, n)
    ELSE LifetimeFinished(Instrument(n.channel), t, n)

\* ------------------------------------------------------------------ state
VARIABLES
    vecNotes,       \* the global note registry
    sampleCount,    \* index of the next sample audioCallback computes
    dataTime,       \* data.time, written by audioCallback
    time,           \* main's local copy of data.time
    halted,         \* the process died on an invalid access
    lastOp          \* the handler that ran last: "init", "read", "down",
                    \* "up", "upInvalid" (a key-up that dereferenced the
                    \* not-found iterator), "tick", "tickRetired" (a render
                    \* tick that reported a note finished)

\* The two actors of the program taken statement by statement.
VARIABLES
    pcCtl,          \* main: "poll" (between events) or "found" (after find_if)
    ctlEvent,       \* the event main is handling: "down" or "up"
    ctlKey,         \* its key
    noteFound,      \* the iterator find_if returned, as a position
    pcRender,       \* audioCallback: "idle", "sweep" or "remove"
    rIdx,           \* the position of MakeNoise's loop or of safe_remove's n
    rEnd            \* the end iterator the range-for took at its start

\* The envelope on its own: one parameter set, one note, one query time.
VARIABLES
    envP,           \* the five parameters of an envelope_adsr
    eOn,            \* dTimeOn
    eOff,           \* dTimeOff
    eT,             \* dTime of the last evaluation (-1: none yet)
    eAmp,           \* amplitude(eT, eOn, eOff)
    ePrevAmp        \* amplitude(eT - 1, eOn, eOff)

\* A sequencer on its own.
VARIABLES
    seq,            \* the fields of a synth::sequencer
    seqRet,         \* the value its last Update returned
    seqClock,       \* the elapsed time fed to it so far, in sixteenths
    seqEmitted      \* the sum of the values Update returned so far

\* The mixer on its own.
VARIABLES
    mixOut          \* the value the last MakeNoise returned

mainVars == <<vecNotes, sampleCount, dataTime, time, halted, lastOp>>
concVars == <<pcCtl, ctlEvent, ctlKey, noteFound, pcRender, rIdx, rEnd>>
envVars == <<envP, eOn, eOff, eT, eAmp, ePrevAmp>>
seqVars == <<seq, seqRet, seqClock, seqEmitted>>
mixVars == <<mixOut>>
vars == <<mainVars, concVars, envVars, seqVars, mixVars>>

\* Scale degree of key k (n.id = k + 64).
NoteBase == 64
Keys == 0 .. (NumKeys - 1)

\* synth::note() followed by the assignments of the key-down branch.
NewNote(k, now) ==
    [id |-> k + NoteBase, on |-> now, off |-> 0, active |-> TRUE,
     channel |-> "Harm"]

\* find_if over vecNotes: index of the first harmonica note of key k, or
\* Len + 1 for vecNotes.end().
NoteFound(notes, k) ==
    LET hits == {i \in 1 .. Len(notes) :
                    notes[i].id = k + NoteBase /\ notes[i].channel = "Harm"}
    IN  IF hits = {} THEN Len(notes) + 1
        ELSE CHOOSE i \in hits : \A j \in hits : i <= j

\* The registry, the clock and main's locals when the event loop is entered.
MainInit ==
    /\ vecNotes = <<>>
    /\ sampleCount = 0
    /\ dataTime = 0
    /\ time = 0
    /\ halted = FALSE
    /\ lastOp = "init"

\* Both actors between two steps.
ConcInit ==
    /\ pcCtl = "poll"
    /\ ctlEvent = "down"
    /\ ctlKey = 0
    /\ noteFound = 1
    /\ pcRender = "idle"
    /\ rIdx = 1
    /\ rEnd = 0

\* The default envelope, not evaluated.
EnvIdle ==
    /\ envP = EnvDefault
    /\ eOn = 0
    /\ eOff = 0
    /\ eT = -1
    /\ eAmp = Zero
    /\ ePrevAmp = Zero

\* synth::note(): the default note.
DefaultNote == [id |-> 0, on |-> 0, off |-> 0, active |-> FALSE, channel |-> "none"]

\* sequencer(tempo, beats, subbeats), followed by AddInstrument for each
\* instrument of insts and the assignment of the channels' sBeat patterns.
Sequencer(tempo, beats, subbeats, insts, pats) ==
    [nBeats |-> beats,
     nSubBeats |-> subbeats,
     fTempo |-> tempo,
     fBeatTime |-> FDiv(FDiv(Norm(60, 1), Norm(tempo, 1)), Norm(subbeats, 1)),
     nCurrentBeat |-> 0,
     nTotalBeats |-> subbeats * beats,
     fAccumulate |-> Zero,
     vecChannel |-> [c \in 1 .. Len(insts) |->
                        [instrument |-> insts[c], sBeat |-> pats[c]]],
     vecNotes |-> <<>>]

\* The default sequencer, with no channel.
SeqIdle ==
    /\ seq = Sequencer(120, 4, 4, <<>>, <<>>)
    /\ seqRet = 0
    /\ seqClock = 0
    /\ seqEmitted = 0

\* No sample computed yet.
MixIdle == mixOut = Zero

Init == MainInit /\ ConcInit /\ EnvIdle /\ SeqIdle /\ MixIdle

\* double time = data.time at the top of main's loop.
ReadTime ==
    /\ ~halted
    /\ time # dataTime
    /\ time' = dataTime
    /\ lastOp' = "read"
    /\ UNCHANGED <<vecNotes, sampleCount, dataTime, halted, concVars, envVars, seqVars, mixVars>>

\* Mutant of KeyDownNotes: the lookup result is ignored and a note is
\* always appended.
KeyDownAlwaysAppends(notes, k, now) == Append(notes, NewNote(k, now))

\* Mutant of KeyDownNotes: a key-down on a note in release does not restart
\* it.
KeyDownKeepsRelease(notes, k, now) ==
    IF NoteFound(notes, k) = Len(notes) + 1
    THEN Append(notes, NewNote(k, now))
    ELSE notes

\* The SDL_KEYDOWN branch for key k with noteFound at position f.  A
\* position past end() is a dangling iterator: what it reads is not a note
\* of the registry and what it writes does not reach one.
KeyDownAt(notes, f, k, now) ==
    IF f = Len(notes) + 1
    THEN Append(notes, NewNote(k, now))
    ELSE IF f <= Len(notes) /\ notes[f].off > notes[f].on
         THEN [notes EXCEPT ![f].on = now, ![f].active = TRUE]
         ELSE notes

\* The result of the SDL_KEYDOWN branch for key k.
KeyDownNotes(notes, k, now) == KeyDownAt(notes, NoteFound(notes, k), k, now)

KeyDown(k) ==
    /\ ~halted
    /\ Len(vecNotes) < MaxNotes
    /\ vecNotes' = KeyDownNotes(vecNotes, k, time)
    /\ lastOp' = "down"
    /\ UNCHANGED <<sampleCount, dataTime, time, halted, concVars, envVars, seqVars, mixVars>>

\* Mutant of KeyUpStamps: the release is stamped whatever the note's state.
KeyUpAlwaysStamps(n) == n.off < n.on \/ n.off >= n.on

\* The guard of the SDL_KEYUP branch on the note found.
KeyUpStamps(n) == n.off < n.on

\* The result of the SDL_KEYUP branch when the note is in the registry.
KeyUpNotes(notes, f, now) ==
    IF KeyUpStamps(notes[f]) THEN [notes EXCEPT ![f].off = now] ELSE notes

\* SDL_KEYUP for key k.  With no note found the branch reads and may write
\* through vecNotes.end(): the access lands outside the live elements, and
\* the process either survives it or dies.
KeyUp(k) ==
    /\ ~halted
    /\ LET f == NoteFound(vecNotes, k)
       IN  IF f <= Len(vecNotes)
           THEN /\ vecNotes' = KeyUpNotes(vecNotes, f, time)
                /\ lastOp' = "up"
                /\ UNCHANGED halted
           ELSE /\ lastOp' = "upInvalid"
                /\ halted' \in BOOLEAN
                /\ UNCHANGED vecNotes
    /\ UNCHANGED <<sampleCount, dataTime, time, concVars, envVars, seqVars, mixVars>>

\* The positions of the notes whose sound reports bNoteFinished at time t.
FinishedAt(notes, t) == {i \in 1 .. Len(notes) : Finished(t, notes[i])}

\* The sweep of MakeNoise at time t: finished notes are flagged inactive.
Sweep(notes, t) ==
    [i \in 1 .. Len(notes) |->
        IF Finished(t, notes[i]) THEN [notes[i] EXCEPT !.active = FALSE]
        ELSE notes[i]]

\* Mutant of IsActive: the notes flagged inactive are the ones kept.
IsInactive(n) == ~n.active

\* The predicate MakeNoise passes to safe_remove.
IsActive(n) == n.active

\* Mutant of SafeRemove: no inactive note is erased.
SafeRemoveErasesNothing(notes) == notes

\* safe_remove with the predicate item.active.
SafeRemove(notes) == SelectSeq(notes, IsActive)

\* MakeNoise(t): the registry it leaves.
MakeNoise(notes, t) == SafeRemove(Sweep(notes, t))

\* One iteration of audioCallback's loop: the next sample's time is stored
\* in data.time and MakeNoise runs at that time.
RenderTick ==
    /\ ~halted
    /\ sampleCount <= MaxTime
    /\ dataTime' = sampleCount
    /\ sampleCount' = sampleCount + 1
    /\ vecNotes' = MakeNoise(vecNotes, sampleCount)
    /\ lastOp' = IF FinishedAt(vecNotes, sampleCount) = {} THEN "tick"
                  ELSE "tickRetired"
    /\ UNCHANGED <<time, halted, concVars, envVars, seqVars, mixVars>>

Next ==
    \/ ReadTime
    \/ \E k \in Keys : KeyDown(k)
    \/ \E k \in Keys : KeyUp(k)
    \/ RenderTick

Spec == Init /\ [][Next]_vars

\* ------------------------------------------------ the envelope on its own
\* Phase lengths and amplitudes the envelope parameters are drawn from.
PhaseTimes == {Sec(i) : i \in 0 .. MaxPhase}
Amplitudes == {Cs(0), Cs(1), Cs(50), Cs(100)}
EnvParams ==
    [attack : PhaseTimes, decay : PhaseTimes, sustain : Amplitudes,
     release : PhaseTimes, start : Amplitudes]

\* An envelope_adsr with any parameters and a note with any on and off.
InitEnv ==
    /\ MainInit /\ ConcInit /\ SeqIdle /\ MixIdle
    /\ envP \in EnvParams
    /\ eOn \in 0 .. MaxTime
    /\ eOff \in 0 .. MaxTime
    /\ eT = -1
    /\ eAmp = Zero
    /\ ePrevAmp = Zero

\* amplitude(dTime, dTimeOn, dTimeOff) at the next sample time.
EnvEval ==
    /\ eT <= MaxTime
    /\ eT' = eT + 1
    /\ eAmp' = Amplitude(envP, Sec(eT'), Sec(eOn), Sec(eOff))
    /\ ePrevAmp' = eAmp
    /\ UNCHANGED <<mainVars, concVars, envP, eOn, eOff, seqVars, mixVars>>

NextEnv == EnvEval

SpecEnv == InitEnv /\ [][NextEnv]_vars

\* ---------------------------------------------- the sequencer on its own
\* The notes one pass of Update's for loop over the channels appends at
\* step cur: one per channel whose pattern has an X there.  The note is a
\* default note with channel, active and id assigned.
RECURSIVE Emit(_, _, _, _)
Emit(channels, c, cur, notes) ==
    IF c > Len(channels) THEN notes
    ELSE Emit(channels, c + 1, cur,
              IF channels[c].sBeat[cur + 1] = "X"
              THEN Append(notes, [DefaultNote EXCEPT
                                     !.channel = channels[c].instrument,
                                     !.active = TRUE,
                                     !.id = NoteBase])
              ELSE notes)

\* Mutant of BeatElapsed: a sub-beat is taken only once more than its
\* duration has accumulated.
BeatElapsedStrict(q) == FGt(q.fAccumulate, q.fBeatTime)

\* The condition of Update's while loop.
BeatElapsed(q) == FGeq(q.fAccumulate, q.fBeatTime)

\* Mutant of NextBeat: the step counter wraps one step late.
NextBeatWrapsLate(q) ==
    IF q.nCurrentBeat + 1 > q.nTotalBeats THEN 0 ELSE q.nCurrentBeat + 1

\* nCurrentBeat++ followed by the wrap to 0 at nTotalBeats.
NextBeat(q) ==
    IF q.nCurrentBeat + 1 >= q.nTotalBeats THEN 0 ELSE q.nCurrentBeat + 1

\* Mutant of Remainder: two sub-beat durations are taken off for one
\* step.
RemainderOfTwoBeats(q) == FSub(FSub(q.fAccumulate, q.fBeatTime), q.fBeatTime)

\* fAccumulate -= fBeatTime.
Remainder(q) == FSub(q.fAccumulate, q.fBeatTime)

\* The while loop of Update.
RECURSIVE UpdateLoop(_)
UpdateLoop(q) ==
    IF BeatElapsed(q)
    THEN LET cur == NextBeat(q)
         IN  UpdateLoop([q EXCEPT
                 !.fAccumulate = Remainder(q),
                 !.nCurrentBeat = cur,
                 !.vecNotes = Emit(q.vecChannel, 1, cur, q.vecNotes)])
    ELSE q

\* Mutant of SeqUpdate: the notes of the earlier calls are kept.
SeqUpdateKeepsNotes(q, elapsed) ==
    UpdateLoop([q EXCEPT !.fAccumulate = FAdd(q.fAccumulate, elapsed)])

\* sequencer::Update(fElapsedTime): the sequencer it leaves.
SeqUpdate(q, elapsed) ==
    UpdateLoop([q EXCEPT !.vecNotes = <<>>,
                         !.fAccumulate = FAdd(q.fAccumulate, elapsed)])

\* The sequencers modelled: tempo 120, one, two or four beats of two or four
\* sub-beats, one or two percussion channels, and per channel a pattern
\* with a hit at step 0 only, at the last step only, or at every step.
Pattern(kind, n) ==
    [i \in 1 .. n |->
        IF kind = "all" \/ (kind = "first" /\ i = 1) \/ (kind = "last" /\ i = n)
        THEN "X" ELSE "."]
PatternKinds == {"first", "last", "all"}
ChannelSets == {<<"Kick">>, <<"Kick", "Snare">>}

InitSeq ==
    /\ MainInit /\ ConcInit /\ EnvIdle /\ MixIdle
    /\ \E beats \in {1, 2, 4}, subbeats \in {2, 4}, insts \in ChannelSets :
          \E kinds \in [1 .. Len(insts) -> PatternKinds] :
              seq = Sequencer(120, beats, subbeats, insts,
                              [c \in 1 .. Len(insts) |->
                                  Pattern(kinds[c], beats * subbeats)])
    /\ seqRet = 0
    /\ seqClock = 0
    /\ seqEmitted = 0

\* A call of Update with an elapsed time of e sixteenths of a second.
Update(e) ==
    /\ seqClock + e <= MaxSeqClock
    /\ seq' = SeqUpdate(seq, Norm(e, 16))
    /\ seqRet' = Len(seq'.vecNotes)
    /\ seqClock' = seqClock + e
    /\ seqEmitted' = seqEmitted + seqRet'
    /\ UNCHANGED <<mainVars, concVars, envVars, mixVars>>

\* The elapsed times of one call: the short ones, and the whole time at once.
ElapsedTimes == (0 .. MaxElapsed) \cup {MaxSeqClock}

NextSeq == \E e \in ElapsedTimes : Update(e)

SpecSeq == InitSeq /\ [][NextSeq]_vars

\* --------------------------------------------------- the mixer on its own
\* dVolume of each instrument.
Volume(ch) ==
    CASE ch = "Bell" -> Cs(100)
      [] ch = "Bell8" -> Cs(100)
      [] ch = "Harm" -> Cs(30)
      [] ch = "Kick" -> Cs(100)
      [] ch = "Snare" -> Cs(100)
      [] ch = "HiHat" -> Cs(50)

\* The values the weighted sum of oscillator calls of one sound call (dSound)
\* is drawn from: the oscillators are sines of the time and random noise.
Waves == {Cs(-100), Zero, Cs(100)}

\* The master gain of MakeNoise.
Gain == Cs(20)

\* Mutant of MixStart: the running sum starts from a non-zero value.
MixStartsAtOne == Cs(100)

\* The running sum of MakeNoise before the sweep.
MixStart == Zero

\* dSound of MakeNoise for note n with raw waveform w: 0 for a note with no
\* channel, else dAmplitude * dSound * dVolume of its instrument.
Sound(t, n, w) ==
    IF n.channel = "none" THEN Zero
    ELSE FMul(FMul(NoteAmplitude(t, n), w), Volume(n.channel))

\* dMixedOutput after the first i notes of the sweep.
RECURSIVE MixSum(_, _, _, _)
MixSum(notes, t, w, i) ==
    IF i = 0 THEN MixStart
    ELSE FAdd(MixSum(notes, t, w, i - 1), Sound(t, notes[i], w[i]))

\* The value MakeNoise(t) returns.
MixedOutput(notes, t, w) == FMul(MixSum(notes, t, w, Len(notes)), Gain)

\* A live note of instrument ch.
MixNote(ch, k, tOn, tOff) ==
    [id |-> k + NoteBase, on |-> tOn, off |-> tOff, active |-> TRUE,
     channel |-> ch]

\* The registries MakeNoise is run on: empty, one note of any instrument, or
\* that note followed by a harmonica note of another key.
MixRegistries ==
    LET first == {MixNote(ch, 0, tOn, tOff) :
                     ch \in InstrumentNames, tOn \in 0 .. MaxTime,
                     tOff \in 0 .. MaxTime}
        second == {MixNote("Harm", 1, tOn, tOff) :
                      tOn \in 0 .. MaxMixOn, tOff \in 0 .. (MaxMixOn + 1)}
    IN  {<<>>} \cup {<<a>> : a \in first}
               \cup {<<a, b>> : a \in first, b \in second}

InitMix ==
    /\ vecNotes \in MixRegistries
    /\ sampleCount = 0
    /\ dataTime = 0
    /\ time = 0
    /\ halted = FALSE
    /\ lastOp = "init"
    /\ ConcInit /\ EnvIdle /\ SeqIdle /\ MixIdle

\* One iteration of audioCallback's loop, with the value MakeNoise returns.
MixTick ==
    /\ sampleCount <= MaxTime
    /\ dataTime' = sampleCount
    /\ sampleCount' = sampleCount + 1
    /\ \E w \in [1 .. Len(vecNotes) -> Waves] :
          mixOut' = MixedOutput(vecNotes, sampleCount, w)
    /\ vecNotes' = MakeNoise(vecNotes, sampleCount)
    /\ lastOp' = IF FinishedAt(vecNotes, sampleCount) = {} THEN "tick"
                  ELSE "tickRetired"
    /\ UNCHANGED <<time, halted, concVars, envVars, seqVars>>

NextMix == MixTick

SpecMix == InitMix /\ [][NextMix]_vars

\* ------------------------------------------- the two actors interleaved
\* main and audioCallback run on two threads and share vecNotes with no
\* lock: each statement below is one step, and the steps of the two actors
\* interleave freely.  An iterator is the position it points at; erase
\* shifts the later notes one position down under it.

\* main: double time = data.time.
CtlReadTime ==
    /\ ~halted /\ pcCtl = "poll"
    /\ time # dataTime
    /\ time' = dataTime
    /\ UNCHANGED <<vecNotes, sampleCount, dataTime, halted, lastOp,
                   concVars, envVars, seqVars, mixVars>>

\* main: an event for key k arrives and find_if runs.
CtlFind(ev, k) ==
    /\ ~halted /\ pcCtl = "poll"
    /\ ev = "down" => Len(vecNotes) < MaxNotes
    /\ ctlEvent' = ev
    /\ ctlKey' = k
    /\ noteFound' = NoteFound(vecNotes, k)
    /\ pcCtl' = "found"
    /\ UNCHANGED <<mainVars, pcRender, rIdx, rEnd, envVars, seqVars, mixVars>>

\* main: the SDL_KEYDOWN branch, on the iterator found earlier.
CtlKeyDown ==
    /\ ~halted /\ pcCtl = "found" /\ ctlEvent = "down"
    /\ vecNotes' = KeyDownAt(vecNotes, noteFound, ctlKey, time)
    /\ halted' \in (IF noteFound > Len(vecNotes) + 1 THEN BOOLEAN ELSE {FALSE})
    /\ pcCtl' = "poll"
    /\ UNCHANGED <<sampleCount, dataTime, time, lastOp, ctlEvent, ctlKey,
                   noteFound, pcRender, rIdx, rEnd, envVars, seqVars, mixVars>>

\* main: the SDL_KEYUP branch, on the iterator found earlier.
CtlKeyUp ==
    /\ ~halted /\ pcCtl = "found" /\ ctlEvent = "up"
    /\ IF noteFound <= Len(vecNotes)
       THEN /\ vecNotes' = KeyUpNotes(vecNotes, noteFound, time)
            /\ UNCHANGED halted
       ELSE /\ halted' \in BOOLEAN
            /\ UNCHANGED vecNotes
    /\ pcCtl' = "poll"
    /\ UNCHANGED <<sampleCount, dataTime, time, lastOp, ctlEvent, ctlKey,
                   noteFound, pcRender, rIdx, rEnd, envVars, seqVars, mixVars>>

\* audioCallback: data->time = time, and MakeNoise enters its range-for,
\* which takes begin() and end() once.
RenderStart ==
    /\ ~halted /\ pcRender = "idle"
    /\ sampleCount <= MaxTime
    /\ dataTime' = sampleCount
    /\ rIdx' = 1
    /\ rEnd' = Len(vecNotes)
    /\ pcRender' = "sweep"
    /\ UNCHANGED <<vecNotes, sampleCount, time, halted, lastOp, pcCtl,
                   ctlEvent, ctlKey, noteFound, envVars, seqVars, mixVars>>

\* MakeNoise: one iteration of the range-for, or its end.
RenderSweep ==
    /\ ~halted /\ pcRender = "sweep"
    /\ IF rIdx <= rEnd
       THEN /\ vecNotes' = IF Finished(dataTime, vecNotes[rIdx])
                           THEN [vecNotes EXCEPT ![rIdx].active = FALSE]
                           ELSE vecNotes
            /\ rIdx' = rIdx + 1
            /\ UNCHANGED pcRender
       ELSE /\ pcRender' = "remove"
            /\ rIdx' = 1
            /\ UNCHANGED vecNotes
    /\ UNCHANGED <<sampleCount, dataTime, time, halted, lastOp, pcCtl,
                   ctlEvent, ctlKey, noteFound, rEnd, envVars, seqVars, mixVars>>

\* v.erase(n): the notes after position i move one position down.
Erase(notes, i) == SubSeq(notes, 1, i - 1) \o SubSeq(notes, i + 1, Len(notes))

\* safe_remove: one iteration of its while loop, or its end and the return
\* of MakeNoise.
RenderRemove ==
    /\ ~halted /\ pcRender = "remove"
    /\ IF rIdx <= Len(vecNotes)
       THEN /\ IF ~IsActive(vecNotes[rIdx])
               THEN vecNotes' = Erase(vecNotes, rIdx) /\ UNCHANGED rIdx
               ELSE rIdx' = rIdx + 1 /\ UNCHANGED vecNotes
            /\ UNCHANGED <<pcRender, sampleCount>>
       ELSE /\ pcRender' = "idle"
            /\ sampleCount' = sampleCount + 1
            /\ UNCHANGED <<vecNotes, rIdx>>
    /\ UNCHANGED <<dataTime, time, halted, lastOp, pcCtl, ctlEvent, ctlKey,
                   noteFound, rEnd, envVars, seqVars, mixVars>>

NextConc ==
    \/ CtlReadTime
    \/ \E ev \in {"down", "up"}, k \in Keys : CtlFind(ev, k)
    \/ CtlKeyDown
    \/ CtlKeyUp
    \/ RenderStart
    \/ RenderSweep
    \/ RenderRemove

SpecConc == Init /\ [][NextConc]_vars

\* ------------------------------------------------------------------ claims
\* A key has a note in the registry.
HasNote(k) == NoteFound(vecNotes, k) <= Len(vecNotes)
NoteOf(k) == vecNotes[NoteFound(vecNotes, k)]

\* C9: with on = 0 and off = 0 and attack > 0, decay > 0 the envelope has
\* the held shape: 0 at t = 0, startAmplitude at t = attack and
\* sustainAmplitude at every t > attack + decay, each subject to the floor.
C9_HeldShapeFromZero ==
    (/\ eT >= 0 /\ eOn = 0 /\ eOff = 0
     /\ FGt(envP.attack, Zero) /\ FGt(envP.decay, Zero)) =>
        /\ eT = 0 => eAmp = Zero
        /\ Sec(eT) = envP.attack => eAmp = ClampFloor(envP.start)
        /\ FGt(Sec(eT), FAdd(envP.attack, envP.decay))
              => eAmp = ClampFloor(envP.sustain)

\* The note of the envelope harness was held past attack + decay and then
\* released, with a release time > 0, and is evaluated at or after off.
ReleasedFromSustain ==
    /\ eT >= eOff
    /\ FGt(FSub(Sec(eOff), Sec(eOn)), FAdd(envP.attack, envP.decay))
    /\ FGt(envP.release, Zero)

\* C10: for a note that reached sustain and was released at off = T with
\* releaseTime > 0, the amplitude is never negative, does not increase from
\* one sample time to the next over [T, T + releaseTime], and is exactly 0
\* at T + releaseTime and at every later time.
C10_ReleaseRamp ==
    ReleasedFromSustain =>
        /\ FGeq(eAmp, Zero)
        /\ (eT > eOff /\ FLeq(Sec(eT), FAdd(Sec(eOff), envP.release)))
              => FLeq(eAmp, ePrevAmp)
        /\ FGeq(Sec(eT), FAdd(Sec(eOff), envP.release)) => eAmp = Zero

\* C10 witness: the ramp has come down from an audible sustain level to 0
\* exactly at T + releaseTime.
C10_Witness ==
    /\ ReleasedFromSustain
    /\ Sec(eT) = FAdd(Sec(eOff), envP.release)
    /\ FGt(ePrevAmp, Zero)
    /\ FLt(ePrevAmp, envP.sustain)
    /\ eAmp = Zero

\* C1: a key-up for a (pitch, instrument) pair with no note in the registry
\* is a silent no-op: the registry is unchanged and the not-found lookup
\* result is not used.
C1_KeyUpMissingIsNoOp ==
    [][\A k \in Keys :
          (KeyUp(k) /\ ~HasNote(k)) =>
              (vecNotes' = vecNotes /\ lastOp' # "upInvalid")]_vars

\* The positions of the notes of key k.
NotesOfKey(notes, k) ==
    {i \in 1 .. Len(notes) : notes[i].id = k + NoteBase /\ notes[i].channel = "Harm"}

\* C2: under every interleaving of main's steps with audioCallback's, no
\* note transition is lost, duplicated or misdirected: when main has
\* handled a key-down the registry holds exactly one note of that key, and
\* a key-up changes no note of another key.
C2_NoLostOrMisdirectedTransition ==
    [][/\ CtlKeyDown => Cardinality(NotesOfKey(vecNotes', ctlKey)) = 1
       /\ CtlKeyUp =>
             \A i \in 1 .. Len(vecNotes) :
                 i \notin NotesOfKey(vecNotes, ctlKey) => vecNotes'[i] = vecNotes[i]]_vars

\* C3: a note a render tick reports finished is removed from the registry
\* by the end of that tick, and no note is left in the registry flagged
\* inactive, so no later tick invokes sound for it or reports it finished
\* again.
C3_FinishedNoteIsRemoved ==
    /\ [](\A i \in 1 .. Len(vecNotes) : vecNotes[i].active)
    /\ [][RenderTick =>
             \A i \in FinishedAt(vecNotes, sampleCount) :
                 \A j \in 1 .. Len(vecNotes') :
                     ~(/\ vecNotes'[j].id = vecNotes[i].id
                       /\ vecNotes'[j].channel = vecNotes[i].channel)]_vars

\* C3 witness: a tick has just retired a note while another note stays.
C3_Witness ==
    /\ lastOp = "tickRetired"
    /\ vecNotes # <<>>

\* C4: the registry holds at most one note for each (pitch, instrument).
C4_OneNotePerPair ==
    \A i, j \in 1 .. Len(vecNotes) :
        (vecNotes[i].id = vecNotes[j].id /\ vecNotes[i].channel = vecNotes[j].channel)
            => i = j

\* C4 witness: a key-down has just re-triggered a note that was in release
\* (on = now > off > 0), and every key has its note.
C4_Witness ==
    /\ lastOp = "down"
    /\ Len(vecNotes) = NumKeys
    /\ \E i \in 1 .. Len(vecNotes) :
          /\ vecNotes[i].off > 0
          /\ vecNotes[i].on > vecNotes[i].off
          /\ vecNotes[i].on = time

\* Two notes of one key that differ at most in an off that lies before on.
HeldAlike(x, y) ==
    /\ x.id = y.id /\ x.channel = y.channel
    /\ x.on = y.on /\ x.active = y.active
    /\ x.off = y.off \/ (x.off < x.on /\ y.off < y.on)

\* Note x is indistinguishable from note y: at every render time from on
\* they have the same amplitude and the same finished flag, and a key-up
\* or a key-down at any time from on leaves them alike again.
BehavesAs(x, y) ==
    /\ HeldAlike(x, y)
    /\ \A t \in x.on .. (MaxTime + 1) :
          /\ NoteAmplitude(t, x) = NoteAmplitude(t, y)
          /\ Finished(t, x) = Finished(t, y)
    /\ \A now \in x.on .. (MaxTime + 1) :
          /\ HeldAlike(KeyUpNotes(<<x>>, 1, now)[1], KeyUpNotes(<<y>>, 1, now)[1])
          /\ KeyUpNotes(<<x>>, 1, now)[1].off = KeyUpNotes(<<y>>, 1, now)[1].off
          /\ HeldAlike(KeyDownNotes(<<x>>, x.id - NoteBase, now)[1],
                       KeyDownNotes(<<y>>, y.id - NoteBase, now)[1])

\* C5: a key-down at time r > off on a live released note sets on = r and
\* puts the note in the held regime, and from then on the note behaves as a
\* brand-new note created with on = r.
C5_RetriggerIsNewNote ==
    /\ [][\A k \in Keys :
             (/\ KeyDown(k) /\ HasNote(k)
              /\ NoteOf(k).off > NoteOf(k).on /\ time > NoteOf(k).off) =>
                 LET n == vecNotes'[NoteFound(vecNotes, k)]
                 IN  /\ n.on = time
                     /\ NoteIsOn(Sec(n.on), Sec(n.off))
                     /\ BehavesAs(n, NewNote(k, time))]_vars
    /\ [](\A i \in 1 .. Len(vecNotes) :
             (vecNotes[i].off > 0 /\ vecNotes[i].on > vecNotes[i].off) =>
                 BehavesAs(vecNotes[i],
                           NewNote(vecNotes[i].id - NoteBase, vecNotes[i].on)))

\* C5 witness: a note re-triggered during its release (on > off > 0) has
\* been rendered at a later tick.
C5_Witness ==
    /\ lastOp = "tick"
    /\ \E i \in 1 .. Len(vecNotes) :
          /\ vecNotes[i].off > 0
          /\ vecNotes[i].on > vecNotes[i].off
          /\ dataTime > vecNotes[i].on

\* C6: every note that enters the registry is constructed active, with
\* on = the current time and off <= on, and is evaluated in the held regime.
C6_NewNoteIsHeld ==
    [][Len(vecNotes') > Len(vecNotes) =>
          LET n == vecNotes'[Len(vecNotes')]
          IN  /\ n.active
              /\ n.on = time
              /\ n.off <= n.on
              /\ NoteIsOn(Sec(n.on), Sec(n.off))]_vars

\* C6, for the notes of the sequencer: a note Update emits is active and
\* has on = the time of the call.  (It has on = 0.0, the default.)
C6_SequencerNoteStartsNow ==
    \A i \in 1 .. Len(seq.vecNotes) :
        /\ seq.vecNotes[i].active
        /\ Sec(seq.vecNotes[i].on) = Norm(seqClock, 16)
        /\ NoteIsOn(Sec(seq.vecNotes[i].on), Sec(seq.vecNotes[i].off))

\* C7: a key-up at time now for a live note with off <= on sets its off to
\* now.
C7_KeyUpStampsUnreleased ==
    [][\A k \in Keys :
          (KeyUp(k) /\ HasNote(k) /\ NoteOf(k).off <= NoteOf(k).on) =>
              vecNotes'[NoteFound(vecNotes, k)].off = time]_vars

\* C8: a key-up for a live note that is already released (off > on) leaves
\* the whole registry unchanged.
C8_ReleaseIsIdempotent ==
    [][\A k \in Keys :
          (KeyUp(k) /\ HasNote(k) /\ NoteOf(k).off > NoteOf(k).on) =>
              vecNotes' = vecNotes]_vars

\* C8 witness: a key-up has just found its note, and every note of the
\* registry was released at an earlier time, so the key-up ran on a released
\* note.
C8_Witness ==
    /\ lastOp = "up"
    /\ vecNotes # <<>>
    /\ \A i \in 1 .. Len(vecNotes) :
          /\ vecNotes[i].off > vecNotes[i].on
          /\ vecNotes[i].off < time

\* C11: for an envelope with attack time 0 (and decay and release > 0) no
\* evaluation divides by zero: the amplitude is a finite number at every
\* time from on; in the held regime at life = 0 it is startAmplitude, and
\* released after zero held time (off = on) it is startAmplitude at t = off,
\* each subject to the floor.
C11_ZeroAttackIsWellDefined ==
    (/\ eT >= eOn /\ eT >= eOff
     /\ envP.attack = Zero
     /\ FGt(envP.decay, Zero) /\ FGt(envP.release, Zero)) =>
        /\ IsFinite(eAmp)
        /\ (NoteIsOn(Sec(eOn), Sec(eOff)) /\ eT = eOn)
              => eAmp = ClampFloor(envP.start)
        /\ (eOff = eOn /\ eT = eOff) => eAmp = ClampFloor(envP.start)

\* The number of channels of sequencer q whose pattern has a hit at step st.
HitsAtStep(q, st) ==
    Cardinality({c \in 1 .. Len(q.vecChannel) : q.vecChannel[c].sBeat[st + 1] = "X"})

\* The hits of the k steps entered from step 0: steps 1, 2, ..., k modulo
\* the number of steps.
RECURSIVE HitsUpTo(_, _)
HitsUpTo(q, k) ==
    IF k = 0 THEN 0
    ELSE HitsUpTo(q, k - 1) + HitsAtStep(q, k % q.nTotalBeats)

\* C12: when the elapsed time fed to a sequencer, in one Update call or in
\* several, is exactly k sub-beat durations, the step counter has advanced
\* by k modulo beats x subbeats, nothing is left in the accumulator, and the
\* calls have emitted one note per step entered and channel with a hit at
\* that step.
C12_SequencerStepping ==
    \A k \in 0 .. MaxSeqClock :
        Norm(seqClock, 16) = FMul(Norm(k, 1), seq.fBeatTime) =>
            /\ seq.nCurrentBeat = k % seq.nTotalBeats
            /\ seq.fAccumulate = Zero
            /\ seqEmitted = HitsUpTo(seq, k)

\* C12 witness: the sequencer of tempo 120 with 4 beats of 4 sub-beats and
\* one channel whose only hit is at step 0 has been fed 2.0 s in more than
\* one call: it has emitted one note in total and is back at step 0.
C12_Witness ==
    /\ seq.nBeats = 4 /\ seq.nSubBeats = 4 /\ seq.fTempo = 120
    /\ Len(seq.vecChannel) = 1
    /\ seq.vecChannel[1].sBeat = Pattern("first", 16)
    /\ seqClock = 32
    /\ seqRet = 0
    /\ seqEmitted = 1
    /\ seq.nCurrentBeat = 0

\* C13: a render tick on an empty registry returns exactly 0.0, whatever the
\* time, and leaves the registry empty.
C13_EmptyRegistryIsSilent ==
    [][(MixTick /\ vecNotes = <<>>) => (mixOut' = Zero /\ vecNotes' = <<>>)]_vars

\* C13 witness: the empty registry has been rendered at a time > 0.
C13_Witness ==
    /\ vecNotes = <<>>
    /\ lastOp = "tick"
    /\ dataTime > 0
    /\ mixOut = Zero

\* The envelope-driven instruments and the percussion.
Melodic == {"Bell", "Bell8", "Harm"}
Percussive == {"Kick", "Snare", "HiHat"}

\* The note at position i of the registry is retired by the step: no note of
\* its (pitch, instrument) pair is left.
Retired(i) ==
    \A j \in 1 .. Len(vecNotes') :
        ~(/\ vecNotes'[j].id = vecNotes[i].id
          /\ vecNotes'[j].channel = vecNotes[i].channel)

\* C14: on a render tick at time t a note of a melodic instrument (bell,
\* 8-bit bell, harmonica) is reported finished, and so retired, exactly when
\* its envelope amplitude at t is 0; a note of a percussive instrument (kick,
\* snare, hi-hat) exactly when t - on >= maxLifetime, whatever its amplitude.
C14_FinishRulePerKind ==
    [][MixTick =>
          \A i \in 1 .. Len(vecNotes) :
              LET n == vecNotes[i]
              IN  /\ n.channel \in Melodic =>
                        (Retired(i) <=> NoteAmplitude(sampleCount, n) = Zero)
                  /\ n.channel \in Percussive =>
                        /\ FGt(Instrument(n.channel).maxLife, Zero)
                        /\ Retired(i) <=>
                              FGeq(FSub(Sec(sampleCount), Sec(n.on)),
                                   Instrument(n.channel).maxLife)]_vars

\* C14 witness: a tick after its on has left a percussive note in the
\* registry although its envelope amplitude at that tick is 0.
C14_Witness ==
    /\ lastOp = "tick"
    /\ \E i \in 1 .. Len(vecNotes) :
          /\ vecNotes[i].channel \in Percussive
          /\ dataTime > vecNotes[i].on
          /\ NoteAmplitude(dataTime, vecNotes[i]) = Zero

\* Note n is due at time t: it is a released note (off > on) of a melodic
\* instrument and t >= off + releaseTime, or a note of a percussive
\* instrument and t >= on + maxLifetime.
Due(n, t) ==
    \/ /\ n.channel \in Melodic
       /\ n.off > n.on
       /\ FGeq(Sec(t), FAdd(Sec(n.off), Instrument(n.channel).env.release))
    \/ /\ n.channel \in Percussive
       /\ FGeq(Sec(t), FAdd(Sec(n.on), Instrument(n.channel).maxLife))

\* C15: with render ticks at advancing times and no re-trigger, a note is
\* retired by the first tick at which it is due, so after a tick at time t
\* the registry holds no note that is due at t.
C15_DueNoteLeaves ==
    /\ [][MixTick =>
             \A i \in 1 .. Len(vecNotes) :
                 Due(vecNotes[i], sampleCount) => Retired(i)]_vars
    /\ [](lastOp \in {"tick", "tickRetired"} =>
             \A i \in 1 .. Len(vecNotes) : ~Due(vecNotes[i], dataTime))

\* C15 witness: a released melodic note has been rendered during its release
\* and stayed, and is due at the tick that comes next.
C15_Witness ==
    /\ lastOp = "tick"
    /\ sampleCount <= MaxTime
    /\ \E i \in 1 .. Len(vecNotes) :
          /\ vecNotes[i].channel \in Melodic
          /\ dataTime >= vecNotes[i].off
          /\ FGt(NoteAmplitude(dataTime, vecNotes[i]), Zero)
          /\ Due(vecNotes[i], sampleCount)

\* The number of sub-beat boundaries an Update of sequencer q with an
\* elapsed time of e sixteenths crosses.
Crossed(q, e) ==
    CHOOSE m \in 0 .. MaxSeqClock :
        LET total == FAdd(q.fAccumulate, Norm(e, 16))
        IN  /\ FLeq(FMul(Norm(m, 1), q.fBeatTime), total)
            /\ FLt(total, FMul(Norm(m + 1, 1), q.fBeatTime))

\* The hits of the m steps entered from the current step of q, as pairs
\* <<number of the step entered, channel>>.
HitPairs(q, m) ==
    {p \in (1 .. m) \X (1 .. Len(q.vecChannel)) :
        q.vecChannel[p[2]].sBeat[((q.nCurrentBeat + p[1]) % q.nTotalBeats) + 1] = "X"}

\* Hit p comes before hit r: an earlier step, or the same step and an
\* earlier channel.
HitBefore(p, r) == p[1] < r[1] \/ (p[1] = r[1] /\ p[2] < r[2])

\* C16: after an Update call the sequencer exposes exactly the notes of this
\* call, one per step entered and channel with a hit at it, in that order,
\* each active and bound to the instrument of its channel; the notes of the
\* earlier calls are gone, the value returned is the number of these notes
\* (0 when no sub-beat boundary was crossed), and the note registry is not
\* touched.
C16_UpdateExposesItsNotes ==
    [][LET e == seqClock' - seqClock
           hits == HitPairs(seq, Crossed(seq, e))
       IN  Update(e) =>
               /\ Len(seq'.vecNotes) = Cardinality(hits)
               /\ seqRet' = Cardinality(hits)
               /\ \A p \in hits :
                     LET i == Cardinality({r \in hits : HitBefore(r, p)}) + 1
                     IN  /\ seq'.vecNotes[i].channel =
                                seq.vecChannel[p[2]].instrument
                         /\ seq'.vecNotes[i].active
               /\ vecNotes' = vecNotes]_vars

\* C16 witness: an Update of a two-channel sequencer has returned notes of
\* both channels after earlier calls had returned notes too.
C16_Witness ==
    /\ seqRet > 0
    /\ seqEmitted > seqRet
    /\ Len(seq.vecNotes) = seqRet
    /\ \E i, j \in 1 .. Len(seq.vecNotes) :
          seq.vecNotes[i].channel # seq.vecNotes[j].channel

\* C17: after every Update call of a sequencer with tempo, beats and
\* subbeats > 0 the sub-beat loop has ended (less than one sub-beat duration
\* is left), 0 <= nCurrentBeat < beats x subbeats, so that the step is a
\* position of every pattern of that length, and 0 <= fAccumulate.
C17_SequencerStateInvariant ==
    /\ seq.nTotalBeats = seq.nBeats * seq.nSubBeats
    /\ 0 <= seq.nCurrentBeat /\ seq.nCurrentBeat < seq.nTotalBeats
    /\ \A c \in 1 .. Len(seq.vecChannel) :
          seq.nCurrentBeat + 1 \in DOMAIN seq.vecChannel[c].sBeat
    /\ FGeq(seq.fAccumulate, Zero)
    /\ FLt(seq.fAccumulate, seq.fBeatTime)
    /\ ~BeatElapsed(seq)

\* C17 witness: the step counter has wrapped and stands at the last step,
\* with a part of a sub-beat left in the accumulator.
C17_Witness ==
    /\ seq.nCurrentBeat = seq.nTotalBeats - 1
    /\ Norm(seqClock, 16) = FAdd(FMul(Norm(2 * seq.nTotalBeats - 1, 1), seq.fBeatTime),
                                 seq.fAccumulate)
    /\ FGt(seq.fAccumulate, Zero)

\* C18: a render tick at time t only retires notes: the registry after it is
\* the notes of the registry before it whose sound did not report finished
\* at t, each unchanged and in the same relative order, and nothing else.
C18_TickOnlyRetires ==
    [][MixTick =>
          LET kept == {i \in 1 .. Len(vecNotes) : ~Finished(sampleCount, vecNotes[i])}
          IN  /\ Len(vecNotes') = Cardinality(kept)
              /\ \A i \in kept :
                    vecNotes'[Cardinality({j \in kept : j <= i})] = vecNotes[i]]_vars

\* C18 witness: a tick has retired the first of two notes and kept the
\* second, a harmonica note.
C18_Witness ==
    /\ lastOp = "tickRetired"
    /\ Len(vecNotes) = 1
    /\ vecNotes[1].id = NoteBase + 1
    /\ vecNotes[1].channel = "Harm"
    /\ vecNotes[1].active

\* C19: a harmonica note that has been triggered and not released
\* (off <= on) is never dropped: whatever step comes next, a render tick at
\* any t >= on included, the registry still holds the note with its on, so
\* the key-up that follows finds it.
C19_HeldNoteStays ==
    [][\A i \in 1 .. Len(vecNotes) :
          (/\ vecNotes[i].channel = "Harm"
           /\ vecNotes[i].off <= vecNotes[i].on
           /\ sampleCount >= vecNotes[i].on) =>
              /\ \E j \in 1 .. Len(vecNotes') :
                    /\ vecNotes'[j].id = vecNotes[i].id
                    /\ vecNotes'[j].channel = vecNotes[i].channel
                    /\ vecNotes'[j].on = vecNotes[i].on
              /\ KeyUp(vecNotes[i].id - NoteBase) => lastOp' = "up"]_vars

\* C19 witness: a key-up has found and released a note that was held for a
\* second or more of render ticks.
C19_Witness ==
    /\ lastOp = "up"
    /\ \E i \in 1 .. Len(vecNotes) :
          /\ vecNotes[i].off = time
          /\ vecNotes[i].on > 0
          /\ vecNotes[i].off - vecNotes[i].on >= TicksPerSecond

====
